---- MODULE Spec2Model ----
(***************************************************************************)
(* Model of the data ingestion pipeline of server/routes.ts: the helpers   *)
(* cleanData, detectDataTypes and convertDataTypes, the delimited-text     *)
(* decoding that feeds them, and the POST /api/upload handler that         *)
(* dispatches on the file name, decodes, persists and responds.            *)
(*                                                                         *)
(* Four specifications share the module.  PipeSpec applies the pure        *)
(* helpers to row sets drawn from bounded input families.  Spec runs       *)
(* upload requests through the handler, one atomic action per stretch of   *)
(* code between two awaits.  QuerySpec applies applyFilter and applySort   *)
(* to bounded row arrays.  GetSpec runs GET /api/:id requests against a    *)
(* store that uploads have filled.                                         *)
(***************************************************************************)
EXTENDS Integers, Sequences, FiniteSets, TLC

VARIABLES pstage, porig, ptext, perrors, pdata, pclean, ptypes, pout,
          reqs, store, gets,
          qstage, qdata, qfilter, qsort, qout

pipeVars == <<pstage, porig, ptext, perrors, pdata, pclean, ptypes, pout>>
srvVars  == <<reqs, store, gets>>
qryVars  == <<qstage, qdata, qfilter, qsort, qout>>
vars     == <<pstage, porig, ptext, perrors, pdata, pclean, ptypes, pout, reqs, store, gets,
              qstage, qdata, qfilter, qsort, qout>>

(***************************************************************************)
(* Bounds of the model.                                                    *)
(***************************************************************************)
MaxKeyLen == 2
MaxRows == 3
MaxReq == 2

(***************************************************************************)
(* Characters and strings.  A string (a key, a cell, a line of text) is a  *)
(* sequence of one-character strings.                                      *)
(***************************************************************************)
LowerLetters == <<"a","b","c","d","e","f","g","h","i","j","k","l","m",
                  "n","o","p","q","r","s","t","u","v","w","x","y","z">>
UpperLetters == <<"A","B","C","D","E","F","G","H","I","J","K","L","M",
                  "N","O","P","Q","R","S","T","U","V","W","X","Y","Z">>
DigitChars == <<"0","1","2","3","4","5","6","7","8","9">>
Range(f) == {f[i] : i \in DOMAIN f}
Digits == Range(DigitChars)

\* The character class [a-zA-Z0-9_] of the regular expression.
WordChars == Range(LowerLetters) \cup Range(UpperLetters) \cup Digits \cup {"_"}

toLowerCaseChar(c) ==
  IF c \in Range(UpperLetters)
  THEN LowerLetters[CHOOSE i \in DOMAIN UpperLetters : UpperLetters[i] = c]
  ELSE c

\* String.prototype.trim, over the white space of the model.
WhiteSpace == {" "}
RECURSIVE trimStart(_)
trimStart(t) == IF t # <<>> /\ Head(t) \in WhiteSpace THEN trimStart(Tail(t)) ELSE t
RECURSIVE trimEnd(_)
trimEnd(t) ==
  IF t # <<>> /\ t[Len(t)] \in WhiteSpace THEN trimEnd(SubSeq(t, 1, Len(t) - 1)) ELSE t
trim(t) == trimEnd(trimStart(t))

\* String.prototype.includes
includes(t, sub) ==
  \E i \in 0..(Len(t) - Len(sub)) : SubSeq(t, i + 1, i + Len(sub)) = sub

\* The decimal text of a natural number, and the number of a decimal text.
RECURSIVE NumText(_)
NumText(n) ==
  IF n < 10 THEN <<DigitChars[n + 1]>>
  ELSE NumText(n \div 10) \o <<DigitChars[(n % 10) + 1]>>
IsNumText(t) == t # <<>> /\ \A i \in 1..Len(t) : t[i] \in Digits
DigitValue(c) == (CHOOSE i \in DOMAIN DigitChars : DigitChars[i] = c) - 1
RECURSIVE ParseNum(_)
ParseNum(t) ==
  IF t = <<>> THEN 0 ELSE 10 * ParseNum(SubSeq(t, 1, Len(t) - 1)) + DigitValue(t[Len(t)])

\* A date-only ISO string, YYYY-MM-DD: the strings of the model that Date.parse
\* accepts.
IsIsoDate(t) ==
  /\ Len(t) = 10
  /\ t[5] = "-" /\ t[8] = "-"
  /\ \A i \in {1, 2, 3, 4, 6, 7, 9, 10} : t[i] \in Digits
  /\ ParseNum(SubSeq(t, 6, 7)) \in 1..12
  /\ ParseNum(SubSeq(t, 9, 10)) \in 1..31

(***************************************************************************)
(* JavaScript values.  Every value is a record of one shape, so that any   *)
(* two values can be compared: k is the result of typeof (null has its own *)
(* tag), n the number, s the string.  NaN is a number marked by its text.  *)
(***************************************************************************)
NaNText == <<"N","a","N">>
Null == [k |-> "null", n |-> 0, s |-> <<>>]
Undefined == [k |-> "undefined", n |-> 0, s |-> <<>>]
Num(n) == [k |-> "number", n |-> n, s |-> <<>>]
NaN == [k |-> "number", n |-> 0, s |-> NaNText]
Str(s) == [k |-> "string", n |-> 0, s |-> s]
Bool(b) == [k |-> "boolean", n |-> IF b THEN 1 ELSE 0, s |-> <<>>]

\* !isNaN(Date.parse(value))
DateParses(v) ==
  CASE v.k = "string" -> IsIsoDate(v.s)
    [] v.k = "number" -> v.s # NaNText
    [] OTHER -> FALSE

(***************************************************************************)
(* Objects: a row is a sequence of entries [key, val] with distinct keys,  *)
(* in insertion order, as Object.entries lists them.                       *)
(***************************************************************************)
KeySet(row) == {row[i].key : i \in 1..Len(row)}
HasKey(row, key) == key \in KeySet(row)
Get(row, key) ==
  IF HasKey(row, key)
  THEN row[CHOOSE i \in 1..Len(row) : row[i].key = key].val
  ELSE Undefined
\* row[key] = val: an existing key keeps its place and takes the new value.
Put(row, key, val) ==
  IF HasKey(row, key)
  THEN [i \in 1..Len(row) |-> IF row[i].key = key THEN [key |-> key, val |-> val] ELSE row[i]]
  ELSE Append(row, [key |-> key, val |-> val])

(***************************************************************************)
(* cleanData (routes.ts 38-49).                                            *)
(***************************************************************************)
\* The replacement without toLowerCase.
cleanKeyNoLowerCase(key) ==
  [i \in 1..Len(key) |-> IF key[i] \in WordChars THEN key[i] ELSE "_"]

\* key.replace(/[^a-zA-Z0-9_]/g, '_').toLowerCase()
cleanKey(key) ==
  [i \in 1..Len(key) |-> toLowerCaseChar(IF key[i] \in WordChars THEN key[i] ELSE "_")]

\* !value ? null : value: every falsy value becomes null.
cleanValueFalsy(value) ==
  IF value \in {Str(<<>>), Num(0), Bool(FALSE)} THEN Null ELSE value

\* value === '' ? null : value
cleanValue(value) == IF value = Str(<<>>) THEN Null ELSE value

RECURSIVE cleanEntries(_, _, _)
cleanEntries(row, i, cleanRow) ==
  IF i > Len(row) THEN cleanRow
  ELSE cleanEntries(row, i + 1, Put(cleanRow, cleanKey(row[i].key), cleanValue(row[i].val)))

cleanData(data) == [r \in 1..Len(data) |-> cleanEntries(data[r], 1, <<>>)]

(***************************************************************************)
(* detectDataTypes (routes.ts 51-84).                                      *)
(***************************************************************************)
\* The tag added to a key's set for one value (lines 60-68).
kindOf(value) ==
  IF value = Null THEN "null"
  ELSE IF value.k = "number" THEN "number"
  ELSE IF DateParses(value) THEN "date"
  ELSE "string"

AllKeys(data) == UNION {KeySet(data[r]) : r \in 1..Len(data)}

typeSetOf(data, key) ==
  {kindOf(Get(data[r], key)) : r \in {q \in 1..Len(data) : HasKey(data[q], key)}}

\* The decision without the tests on the size of the set: a date among the
\* tags makes the column a date column.
finalTypeAnyDate(typeSet) ==
  IF "number" \in typeSet /\ Cardinality(typeSet) = 2 /\ "null" \in typeSet THEN "number"
  ELSE IF "date" \in typeSet THEN "date"
  ELSE "string"

\* The decision on a key's set of tags (lines 73-81).
finalType(typeSet) ==
  IF "number" \in typeSet /\ Cardinality(typeSet) = 2 /\ "null" \in typeSet THEN "number"
  ELSE IF "date" \in typeSet /\ Cardinality(typeSet) = 2 /\ "null" \in typeSet THEN "date"
  ELSE "string"

detectDataTypes(data) == [key \in AllKeys(data) |-> finalType(typeSetOf(data, key))]

(***************************************************************************)
(* convertDataTypes (routes.ts 86-102).                                    *)
(***************************************************************************)
\* Number(value)
ToNumber(v) ==
  CASE v.k = "number" -> v
    [] v.k = "null" -> Num(0)
    [] v.k = "boolean" -> Num(v.n)
    [] v.k = "string" ->
         IF trim(v.s) = <<>> THEN Num(0)
         ELSE IF IsNumText(trim(v.s)) THEN Num(ParseNum(trim(v.s)))
         ELSE NaN
    [] OTHER -> NaN

TrueText == <<"t","r","u","e">>
FalseText == <<"f","a","l","s","e">>

\* String(value)
ToStr(v) ==
  CASE v.k = "string" -> v
    [] v.k = "number" -> IF v.s = NaNText THEN Str(NaNText) ELSE Str(NumText(v.n))
    [] v.k = "boolean" -> IF v.n = 1 THEN Str(TrueText) ELSE Str(FalseText)
    [] v.k = "null" -> Str(<<"n","u","l","l">>)
    [] OTHER -> Str(<<"u","n","d","e","f","i","n","e","d">>)

\* new Date(value).toISOString(), which throws a RangeError on an invalid date.
ISOThrows(v) == ~DateParses(v)
Pad3(n) ==
  IF n < 10 THEN <<"0", "0">> \o NumText(n)
  ELSE IF n < 100 THEN <<"0">> \o NumText(n) ELSE NumText(n)
ToISO(v) ==
  IF v.k = "string"
  THEN Str(v.s \o <<"T","0","0",":","0","0",":","0","0",".","0","0","0","Z">>)
  ELSE Str(<<"1","9","7","0","-","0","1","-","0","1","T","0","0",":","0","0",":","0">>
             \o NumText(v.n \div 1000) \o <<".">> \o Pad3(v.n % 1000) \o <<"Z">>)

typeAt(types, key) == IF key \in DOMAIN types THEN types[key] ELSE "undefined"

\* The conversion without String() in its last branch.
convertValueNoString(value, type) ==
  IF value = Null THEN Null
  ELSE IF type = "number" THEN ToNumber(value)
  ELSE IF type = "date" THEN ToISO(value)
  ELSE value

\* One value under the type of its key (lines 90-98).
convertValue(value, type) ==
  IF value = Null THEN Null
  ELSE IF type = "number" THEN ToNumber(value)
  ELSE IF type = "date" THEN ToISO(value)
  ELSE ToStr(value)

convertRow(row, types) ==
  [i \in 1..Len(row) |->
     [key |-> row[i].key, val |-> convertValue(row[i].val, typeAt(types, row[i].key))]]

convertThrows(data, types) ==
  \E r \in 1..Len(data) : \E i \in 1..Len(data[r]) :
     /\ data[r][i].val # Null
     /\ typeAt(types, data[r][i].key) = "date"
     /\ ISOThrows(data[r][i].val)

convertDataTypes(data, types) == [r \in 1..Len(data) |-> convertRow(data[r], types)]

(***************************************************************************)
(* Delimited text.  A text is kept tokenised: its header line as a         *)
(* sequence of keys and its other lines as sequences of cell texts.  The   *)
(* cells of the model hold no delimiter, quote or line break.              *)
(***************************************************************************)
\* The text of one value in a delimited file.
cellText(v) ==
  CASE v.k = "number" -> IF v.s = NaNText THEN NaNText ELSE NumText(v.n)
    [] v.k = "string" -> v.s
    [] v.k = "boolean" -> IF v.n = 1 THEN TrueText ELSE FalseText
    [] OTHER -> <<>>

\* A row array written as delimited text with a header row: the keys of the
\* first row, then one line per row.
encodeCSV(rows) ==
  LET header == [i \in 1..Len(rows[1]) |-> rows[1][i].key]
  IN [header |-> header,
      lines |-> [r \in 1..Len(rows) |->
                   [i \in 1..Len(header) |-> cellText(Get(rows[r], header[i]))]]]

\* dynamicTyping: true (routes.ts 284): what Papa makes of one cell.
dynamicType(cell) ==
  IF cell = TrueText \/ cell = <<"T","R","U","E">> THEN Bool(TRUE)
  ELSE IF cell = FalseText \/ cell = <<"F","A","L","S","E">> THEN Bool(FALSE)
  ELSE IF IsNumText(trim(cell)) THEN Num(ParseNum(trim(cell)))
  ELSE IF cell = <<>> THEN Null
  ELSE Str(cell)

\* skipEmptyLines: true (routes.ts 283): a line that is the empty string.
isEmptyLine(line) == Len(line) = 1 /\ line[1] = <<>>

RECURSIVE keptLines(_, _)
keptLines(lines, i) ==
  IF i > Len(lines) THEN <<>>
  ELSE IF isEmptyLine(lines[i]) THEN keptLines(lines, i + 1)
  ELSE <<lines[i]>> \o keptLines(lines, i + 1)

RECURSIVE sumLen(_, _)
sumLen(lines, i) == IF i > Len(lines) THEN 0 ELSE Len(lines[i]) + sumLen(lines, i + 1)

\* No delimiter is configured (routes.ts 281-285), so Papa guesses one; the guess
\* fails unless the lines average more than 1.99 fields.
delimiterUndetected(text) ==
  LET kept == keptLines(text.lines, 1)
  IN 100 * (Len(text.header) + sumLen(kept, 1)) <= 199 * (1 + Len(kept))

\* header: true (routes.ts 282): one object per line, keyed by the header; a
\* line with fewer fields yields fewer keys, one with more is cut to the header.
papaRow(header, line) ==
  [i \in 1..(IF Len(line) < Len(header) THEN Len(line) ELSE Len(header)) |->
     [key |-> header[i], val |-> dynamicType(line[i])]]

papaData(text) ==
  LET kept == keptLines(text.lines, 1)
  IN [r \in 1..Len(kept) |-> papaRow(text.header, kept[r])]

RECURSIVE fieldErrors(_, _, _)
fieldErrors(header, kept, r) ==
  IF r > Len(kept) THEN <<>>
  ELSE (IF Len(kept[r]) < Len(header)
        THEN <<[type |-> "FieldMismatch", code |-> "TooFewFields", row |-> r]>>
        ELSE IF Len(kept[r]) > Len(header)
        THEN <<[type |-> "FieldMismatch", code |-> "TooManyFields", row |-> r]>>
        ELSE <<>>) \o fieldErrors(header, kept, r + 1)

papaErrors(text) ==
  fieldErrors(text.header, keptLines(text.lines, 1), 1)
    \o (IF delimiterUndetected(text)
        THEN <<[type |-> "Delimiter", code |-> "UndetectableDelimiter", row |-> 0]>>
        ELSE <<>>)

(***************************************************************************)
(* The input families of PipeSpec.                                         *)
(***************************************************************************)
KeyChars == {"a", "B", "1", "_", "-", " "}
Keys == UNION {[1..m -> KeyChars] : m \in 0..MaxKeyLen}
PlainA == <<"a">>
PlainB == <<"b">>

MkRow(header, vals) == [i \in 1..Len(header) |-> [key |-> header[i], val |-> vals[i]]]

\* One row under one key, or under two distinct keys.
KeyInputs ==
  {<<MkRow(<<k1>>, <<v>>)>> : k1 \in Keys, v \in {Str(<<>>), Num(7)}}
    \cup {<<MkRow(<<p[1], p[2]>>, <<Str(<<>>), Num(7)>>)>> :
            p \in {q \in Keys \X Keys : q[1] # q[2]}}

\* Up to MaxRows rows of one column over every kind of value, or of two
\* columns over the kinds the type decision tells apart.
TextX == <<"x">>
TextDate == <<"2","0","2","0","-","0","1","-","0","1">>
CellValues == {Null, Num(0), Num(7), Str(<<>>), Str(<<" ">>), Str(TextX), Str(TextDate), Bool(FALSE)}
KindValues == {Null, Num(7), Str(TextX), Str(TextDate)}
ValueInputs ==
  UNION {{[r \in 1..m |-> MkRow(<<PlainA>>, <<col[r]>>)] : col \in [1..m -> CellValues]}
           : m \in 0..MaxRows}
    \cup UNION {{[r \in 1..m |-> MkRow(<<PlainA, PlainB>>, <<c1[r], c2[r]>>)] :
                   c1 \in [1..m -> KindValues], c2 \in [1..m -> KindValues]}
                  : m \in 1..MaxRows}

\* Typed rows to be written as delimited text: one column, or two of which the
\* second key needs sanitising.
TypedValues == {Null, Num(7), Str(TextX)}
TypedInputs ==
  UNION {{[r \in 1..m |-> MkRow(<<PlainA>>, <<col[r]>>)] : col \in [1..m -> TypedValues]}
           : m \in 1..MaxRows}
    \cup UNION {{[r \in 1..m |-> MkRow(<<PlainA, <<"B", "-">>>>, <<c1[r], c2[r]>>)] :
                   c1 \in [1..m -> TypedValues], c2 \in [1..m -> TypedValues]}
                  : m \in 1..MaxRows}

NoText == [header |-> <<>>, lines |-> <<>>]
NoTypes == [key \in {} |-> "string"]

(***************************************************************************)
(* PipeSpec: the helpers applied in the order of the .csv branch           *)
(* (routes.ts 281-296).                                                    *)
(***************************************************************************)
PipeIdle ==
  /\ pstage = "idle" /\ porig = <<>> /\ ptext = NoText /\ perrors = <<>>
  /\ pdata = <<>> /\ pclean = <<>> /\ ptypes = NoTypes /\ pout = <<>>

SrvIdle == reqs = <<>> /\ store = <<>> /\ gets = <<>>

NoFilter == [field |-> <<>>, operator |-> "", value |-> Undefined]
NoSort == [field |-> <<>>, direction |-> ""]
QryIdle ==
  qstage = "idle" /\ qdata = <<>> /\ qfilter = NoFilter /\ qsort = NoSort /\ qout = <<>>

PipeInit ==
  /\ ptext = NoText /\ perrors = <<>> /\ pclean = <<>> /\ ptypes = NoTypes /\ pout = <<>>
  /\ \/ pstage = "orig" /\ porig \in TypedInputs /\ pdata = <<>>
     \/ pstage = "raw" /\ porig = <<>> /\ pdata \in KeyInputs \cup ValueInputs
  /\ SrvIdle
  /\ QryIdle

Encode ==
  /\ pstage = "orig"
  /\ ptext' = encodeCSV(porig)
  /\ pstage' = "text"
  /\ UNCHANGED <<porig, perrors, pdata, pclean, ptypes, pout, reqs, store, gets, qryVars>>

Parse ==
  /\ pstage = "text"
  /\ perrors' = papaErrors(ptext)
  /\ pdata' = papaData(ptext)
  /\ pstage' = IF Len(papaErrors(ptext)) > 0 THEN "rejected" ELSE "raw"
  /\ UNCHANGED <<porig, ptext, pclean, ptypes, pout, reqs, store, gets, qryVars>>

Clean ==
  /\ pstage = "raw"
  /\ pclean' = cleanData(pdata)
  /\ pstage' = "clean"
  /\ UNCHANGED <<porig, ptext, perrors, pdata, ptypes, pout, reqs, store, gets, qryVars>>

Detect ==
  /\ pstage = "clean"
  /\ ptypes' = detectDataTypes(pclean)
  /\ pstage' = "typed"
  /\ UNCHANGED <<porig, ptext, perrors, pdata, pclean, pout, reqs, store, gets, qryVars>>

Convert ==
  /\ pstage = "typed"
  /\ pout' = IF convertThrows(pclean, ptypes) THEN <<>> ELSE convertDataTypes(pclean, ptypes)
  /\ pstage' = IF convertThrows(pclean, ptypes) THEN "threw" ELSE "done"
  /\ UNCHANGED <<porig, ptext, perrors, pdata, pclean, ptypes, reqs, store, gets, qryVars>>

PipeNext == Encode \/ Parse \/ Clean \/ Detect \/ Convert

PipeSpec == PipeInit /\ [][PipeNext]_vars

(***************************************************************************)
(* Properties of the helpers, stated over PipeSpec.                        *)
(***************************************************************************)
Typed == pstage \in {"typed", "done", "threw"}

ColumnValues(data, key) == {Get(data[r], key) : r \in {q \in 1..Len(data) : HasKey(data[q], key)}}

\* A column of numbers and nulls, with a number in it.
IsNumericColumn(data, key) ==
  /\ \A v \in ColumnValues(data, key) : v = Null \/ v.k = "number"
  /\ \E v \in ColumnValues(data, key) : v.k = "number"

\* A column of date-parseable strings and nulls, with such a string in it.
IsDateColumn(data, key) ==
  /\ \A v \in ColumnValues(data, key) : v = Null \/ (v.k = "string" /\ DateParses(v))
  /\ \E v \in ColumnValues(data, key) : v.k = "string"

\* C1: every column of numbers and nulls holding at least one number is given
\* the type number, with or without a null in it, and after conversion no
\* value of the column other than null is anything but a number.
C1_NumericColumnIsNumber ==
  pstage = "done" =>
    \A key \in AllKeys(pclean) :
      IsNumericColumn(pclean, key) =>
        /\ ptypes[key] = "number"
        /\ \A v \in ColumnValues(pout, key) : v = Null \/ v.k = "number"

\* C2: every column of date-parseable strings and nulls holding at least one
\* such string is given the type date, with or without a null in it.
C2_DateColumnIsDate ==
  Typed => \A key \in AllKeys(pclean) : IsDateColumn(pclean, key) => ptypes[key] = "date"

\* The rows without their null entries.
withoutNulls(data) ==
  [r \in 1..Len(data) |-> SelectSeq(data[r], LAMBDA e : e.val # Null)]

\* C3: a column of two or more different non-null kinds, and a column of
\* nulls only, is given the type string; and the nulls of a column never
\* change the type that its other values get without them.
C3_MixedAndNullColumns ==
  Typed =>
    \A key \in AllKeys(pclean) :
      LET nonNull == typeSetOf(pclean, key) \ {"null"}
      IN /\ Cardinality(nonNull) >= 2 => ptypes[key] = "string"
         /\ nonNull = {} => ptypes[key] = "string"
         /\ nonNull # {} => ptypes[key] = detectDataTypes(withoutNulls(pclean))[key]

\* The key with every character outside [A-Za-z0-9_] removed, in lower case.
stripKey(key) ==
  LET kept == SelectSeq(key, LAMBDA c : c \in WordChars)
  IN [i \in 1..Len(kept) |-> toLowerCaseChar(kept[i])]

Cleaned == pstage \in {"clean", "typed", "done", "threw"}

\* C4: the keys of a cleaned row are the keys of the source row with every
\* character outside [A-Za-z0-9_] removed and the rest in lower case, so none
\* is longer than the number of allowed characters of its source key.
C4_KeysAreStripped ==
  Cleaned =>
    \A r \in 1..Len(pdata) :
      /\ KeySet(pclean[r]) = {stripKey(key) : key \in KeySet(pdata[r])}
      /\ \A i \in 1..Len(pdata[r]) :
           \E key \in KeySet(pclean[r]) :
             /\ key = stripKey(pdata[r][i].key)
             /\ Len(key) <= Cardinality({j \in 1..Len(pdata[r][i].key) :
                                           pdata[r][i].key[j] \in WordChars})

\* C5: keys of a row that differ only in letter case or in characters outside
\* [A-Za-z0-9_] end under one key of the cleaned row: the cleaned row has no
\* more keys than the source row has keys different up to case and such
\* characters.
C5_EquivalentKeysCollapse ==
  Cleaned =>
    \A r \in 1..Len(pdata) :
      Cardinality(KeySet(pclean[r])) <= Cardinality({stripKey(key) : key \in KeySet(pdata[r])})

\* C6: typed rows written as delimited text and read back through parse,
\* cleanData, detectDataTypes and convertDataTypes come back with the values
\* they had, column by column; a number comes back a number.
C6_RoundTrip ==
  (pstage = "done" /\ porig # <<>>) =>
    /\ Len(pout) = Len(porig)
    /\ \A r \in 1..Len(porig) :
         /\ Len(pout[r]) = Len(porig[r])
         /\ \A i \in 1..Len(porig[r]) : pout[r][i].val = porig[r][i].val

(***************************************************************************)
(* The upload handler (routes.ts 252-355).                                 *)
(*                                                                         *)
(* File names.                                                             *)
(***************************************************************************)
endsWith(name, suffix) ==
  /\ Len(name) >= Len(suffix)
  /\ SubSeq(name, Len(name) - Len(suffix) + 1, Len(name)) = suffix

ExtJson == <<".","j","s","o","n">>
ExtXml  == <<".","x","m","l">>
ExtHtml == <<".","h","t","m","l">>
ExtHtm  == <<".","h","t","m">>
ExtCsv  == <<".","c","s","v">>
ExtXlsx == <<".","x","l","s","x">>
ExtXls  == <<".","x","l","s">>
ExtTxt  == <<".","t","x","t">>

\* The if-chain without its final else: every other name is read as text.
dispatchNoElse(fileName) ==
  IF endsWith(fileName, ExtJson) THEN "json"
  ELSE IF endsWith(fileName, ExtXml) THEN "xml"
  ELSE IF endsWith(fileName, ExtHtml) THEN "html"
  ELSE IF endsWith(fileName, ExtCsv) THEN "csv"
  ELSE IF endsWith(fileName, ExtXlsx) \/ endsWith(fileName, ExtXls) THEN "xlsx"
  ELSE "txt"

\* The chain testing includes instead of endsWith: a suffix anywhere in the name.
dispatchByIncludes(fileName) ==
  IF includes(fileName, ExtJson) THEN "json"
  ELSE IF includes(fileName, ExtXml) THEN "xml"
  ELSE IF includes(fileName, ExtHtml) THEN "html"
  ELSE IF includes(fileName, ExtCsv) THEN "csv"
  ELSE IF includes(fileName, ExtXlsx) \/ includes(fileName, ExtXls) THEN "xlsx"
  ELSE IF includes(fileName, ExtTxt) THEN "txt"
  ELSE "unsupported"

\* The branch of the if-chain that a file name takes (lines 262-333).
dispatch(fileName) ==
  IF endsWith(fileName, ExtJson) THEN "json"
  ELSE IF endsWith(fileName, ExtXml) THEN "xml"
  ELSE IF endsWith(fileName, ExtHtml) THEN "html"
  ELSE IF endsWith(fileName, ExtCsv) THEN "csv"
  ELSE IF endsWith(fileName, ExtXlsx) \/ endsWith(fileName, ExtXls) THEN "xlsx"
  ELSE IF endsWith(fileName, ExtTxt) THEN "txt"
  ELSE "unsupported"

FileNames ==
  {<<"a">> \o ext : ext \in {ExtJson, ExtXml, ExtHtml, ExtHtm, ExtCsv, ExtXlsx, ExtXls, ExtTxt}}
    \cup {<<"a", ".", "p", "d", "f">>, <<"a", ".", "C", "S", "V">>, <<"c", "s", "v">>,
          <<"a">> \o ExtJson \o ExtTxt}

(***************************************************************************)
(* Datasets: the value of jsonData, a record of one shape.                 *)
(***************************************************************************)
NoData ==
  [tag |-> "undefined", rows |-> <<>>, sheets |-> <<>>, tree |-> "",
   lines |-> <<>>, tables |-> <<>>, lists |-> <<>>]
DNull == [NoData EXCEPT !.tag = "null"]
DArray(rows) == [NoData EXCEPT !.tag = "array", !.rows = rows]
DSheets(sheets) == [NoData EXCEPT !.tag = "sheets", !.sheets = sheets]
DTree(tree) == [NoData EXCEPT !.tag = "tree", !.tree = tree]
DContent(lines) == [NoData EXCEPT !.tag = "content", !.lines = lines]
DHtml(tables, lists) == [NoData EXCEPT !.tag = "html", !.tables = tables, !.lists = lists]

(***************************************************************************)
(* File contents.  A content is kept as what it is: its lines of text,     *)
(* and, by its format, the value a JSON or XML text denotes, the cells of  *)
(* a delimited text, the tables and lists of an HTML document, the sheets  *)
(* of a workbook.                                                          *)
(***************************************************************************)
NoDom == [tables |-> <<>>, lists |-> <<>>]
Blank ==
  [fmt |-> "blank", value |-> NoData, text |-> NoText, dom |-> NoDom,
   book |-> <<>>, lines |-> <<<<>>>>]

RECURSIVE joinCells(_)
joinCells(cells) ==
  IF cells = <<>> THEN <<>>
  ELSE IF Len(cells) = 1 THEN cells[1]
  ELSE cells[1] \o <<",">> \o joinCells(Tail(cells))

csvLines(text) ==
  <<joinCells(text.header)>> \o [i \in 1..Len(text.lines) |-> joinCells(text.lines[i])]

JsonBlob(value, line) == [Blank EXCEPT !.fmt = "json", !.value = value, !.lines = <<line>>]
XmlBlob(value, line) == [Blank EXCEPT !.fmt = "xml", !.value = value, !.lines = <<line>>]
HtmlBlob(dom, lines) == [Blank EXCEPT !.fmt = "html", !.dom = dom, !.lines = lines]
CsvBlob(text) == [Blank EXCEPT !.fmt = "csv", !.text = text, !.lines = csvLines(text)]
BookBlob(book) == [Blank EXCEPT !.fmt = "xlsx", !.book = book, !.lines = <<<<"P", "K">>>>]
TextBlob(lines) == [Blank EXCEPT !.fmt = "text", !.lines = lines]

\* [{"a":7,"b":"x"}], null and {"a":7}
JsonRows ==
  JsonBlob(DArray(<<MkRow(<<PlainA, PlainB>>, <<Num(7), Str(TextX)>>)>>),
           <<"[","{","\"","a","\"",":","7",",","\"","b","\"",":","\"","x","\"","}","]">>)
JsonNull == JsonBlob(DNull, <<"n","u","l","l">>)
JsonObject == JsonBlob(DTree("{a:7}"), <<"{","\"","a","\"",":","7","}">>)
\* <r>x</r>
XmlDoc == XmlBlob(DTree("{r:x}"), <<"<","r",">","x","<","/","r",">">>)
\* <ul><li> x</li><li></li></ul> followed by <table><tr><td>7 </td></tr><tr></tr></table>
HtmlDoc ==
  HtmlBlob([tables |-> << << << <<"7", " ">> >>, <<>> >> >>,
            lists |-> << << <<" ", "x">>, <<>> >> >>],
           << <<"<","u","l",">","<","l","i",">"," ","x","<","/","l","i",">",
                "<","l","i",">","<","/","l","i",">","<","/","u","l",">">>,
              <<"<","t","a","b","l","e",">","<","t","r",">","<","t","d",">","7"," ",
                "<","/","t","d",">","<","/","t","r",">","<","t","r",">","<","/","t","r",">",
                "<","/","t","a","b","l","e",">">> >>)
\* <table></table><ul></ul>: a table without a cell and a list without an item
HtmlBare ==
  HtmlBlob([tables |-> << <<>> >>, lists |-> << <<>> >>],
           << <<"<","t","a","b","l","e",">","<","/","t","a","b","l","e",">",
                "<","u","l",">","<","/","u","l",">">> >>)
\* Two lines of plain text, neither JSON nor XML.
PlainText == TextBlob(<< <<" ", "x", " ">>, <<"{">> >>)
\* a,B- / 7,x / ,x
CsvGood ==
  CsvBlob([header |-> <<PlainA, <<"B", "-">>>>,
           lines |-> << <<<<"7">>, TextX>>, <<<<>>, TextX>> >>])
\* a,b / 7 / 7,x,x: a line of too few fields and one of too many
CsvRagged ==
  CsvBlob([header |-> <<PlainA, PlainB>>,
           lines |-> << <<<<"7">>>>, <<<<"7">>, TextX, TextX>> >>])
\* a / 7: one column, so no delimiter to detect
CsvOneColumn == CsvBlob([header |-> <<PlainA>>, lines |-> << <<<<"7">>>> >>])
\* Workbooks, as sheet_to_json with raw: false and defval: null lists their rows.
SheetOne ==
  [name |-> "Sheet1",
   rows |-> << MkRow(<<PlainA, <<"B", " ">>>>, <<Str(TextX), Str(TextDate)>>),
               MkRow(<<PlainA, <<"B", " ">>>>, <<Str(TextX), Null>>) >>]
SheetTwo ==
  [name |-> "Sheet2",
   rows |-> <<MkRow(<<PlainA>>, <<Str(TextDate)>>), MkRow(<<PlainA>>, <<Null>>)>>]
BookOne == BookBlob(<<SheetOne>>)
BookTwo == BookBlob(<<SheetOne, SheetTwo>>)

Contents ==
  {Blank, JsonRows, JsonNull, JsonObject, XmlDoc, HtmlDoc, HtmlBare, PlainText,
   CsvGood, CsvRagged, CsvOneColumn, BookOne, BookTwo}

(***************************************************************************)
(* The decoders.                                                           *)
(***************************************************************************)
\* JSON.parse(fileContent) (line 264): whether it returns, and what.
jsonParses(content) == content.fmt = "json"
jsonValue(content) == content.value

\* parseXML (lines 135-147): xml2js rejects text that is not well-formed, and
\* the function rethrows; for a text of white space only xml2js reports no
\* error and its result is null.
xmlRejects(content) == content.fmt \notin {"xml", "blank"}
xmlValue(content) == IF content.fmt = "xml" THEN content.value ELSE DNull

\* parseHTML (lines 149-196): cheerio loads any text; a text that is no HTML
\* has no table and no list.
domOf(content) == IF content.fmt = "html" THEN content.dom ELSE NoDom
trimAll(texts) == [i \in 1..Len(texts) |-> trim(texts[i])]
nonEmpty(seqs) == SelectSeq(seqs, LAMBDA x : Len(x) > 0)
tableData(table) == nonEmpty([j \in 1..Len(table) |-> trimAll(table[j])])
parseHTML(content) ==
  LET dom == domOf(content)
  IN DHtml(nonEmpty([i \in 1..Len(dom.tables) |-> tableData(dom.tables[i])]),
           nonEmpty([i \in 1..Len(dom.lists) |-> trimAll(dom.lists[i])]))

\* The delimited text Papa.parse sees in a content: the cells of a delimited
\* text, and of any other text its lines, one field each.
textOf(content) ==
  IF content.fmt = "csv" THEN content.text
  ELSE LET kept == nonEmpty(content.lines)
       IN IF kept = <<>> THEN NoText
          ELSE [header |-> <<kept[1]>>, lines |-> [i \in 1..(Len(kept) - 1) |-> <<kept[i + 1]>>]]

\* XLSX.read(req.file.buffer) (line 298): the workbook of a spreadsheet file;
\* of other bytes the library either makes some workbook or throws.
NoBook == [threw |-> TRUE, book |-> <<>>]
xlsxOutcomes(content) ==
  IF content.fmt = "xlsx" THEN {[threw |-> FALSE, book |-> content.book]}
  ELSE {NoBook, [threw |-> FALSE, book |-> <<[name |-> "Sheet1", rows |-> <<>>]>>]}

\* cleanData, detectDataTypes and convertDataTypes in a row (lines 294-296, 308-310).
processedRows(data) == convertDataTypes(cleanData(data), detectDataTypes(cleanData(data)))
processThrows(data) == convertThrows(cleanData(data), detectDataTypes(cleanData(data)))

\* content.split('\n').map(line => line.trim()) of the trimmed content (line 328).
RECURSIVE dropBlankStart(_)
dropBlankStart(ls) == IF ls # <<>> /\ Head(ls) = <<>> THEN dropBlankStart(Tail(ls)) ELSE ls
RECURSIVE dropBlankEnd(_)
dropBlankEnd(ls) ==
  IF ls # <<>> /\ ls[Len(ls)] = <<>> THEN dropBlankEnd(SubSeq(ls, 1, Len(ls) - 1)) ELSE ls
contentLines(content) ==
  LET ls == dropBlankEnd(dropBlankStart(trimAll(content.lines)))
  IN IF ls = <<>> THEN <<<<>>>> ELSE ls

(***************************************************************************)
(* Requests, responses and the store.                                      *)
(*                                                                         *)
(* A request holds its file (multer's req.file), the handler's position,   *)
(* its jsonData, the decoders and helpers it has called (ran), and the     *)
(* responses sent on it.  The store is the endpoints table; by is the      *)
(* request that inserted the row.                                          *)
(***************************************************************************)
ErrorResp(status, error, message, details) ==
  [status |-> status, error |-> error, message |-> message, details |-> details,
   jsonData |-> NoData, id |-> 0]
OkResp(id, jsonData) ==
  [status |-> 200, error |-> "", message |-> "", details |-> <<>>,
   jsonData |-> jsonData, id |-> id]

Step(pc, jsonData, ran, resp) == [pc |-> pc, jsonData |-> jsonData, ran |-> ran, resp |-> resp]

\* A response sent without the return: the handler runs on to createEndpoint.
rejectPcNoReturn == "awaitDb"
\* return res.status(...).json(...): the handler is over.
rejectPc == "done"
Reject(status, error, message, details, ran) ==
  Step(rejectPc, NoData, ran, <<ErrorResp(status, error, message, details)>>)
\* An exception caught at line 349.
Caught(message, ran) ==
  Step("done", NoData, ran, <<ErrorResp(500, "File processing error", message, <<>>)>>)

\* The test off by one: a single error passes.
csvRejectedOffByOne(errors) == Len(errors) > 1
\* errors.length > 0 (line 287)
csvRejected(errors) == Len(errors) > 0

PipeRan == {"cleanData", "detectDataTypes", "convertDataTypes"}

\* The .csv branch (lines 280-296).
csvBranch(content) ==
  LET text == textOf(content)
  IN IF csvRejected(papaErrors(text))
     THEN Reject(400, "CSV parsing errors", "", papaErrors(text), {"Papa.parse"})
     ELSE IF processThrows(papaData(text))
     THEN Caught("Invalid time value", {"Papa.parse"} \cup PipeRan)
     ELSE Step("awaitDb", DArray(processedRows(papaData(text))), {"Papa.parse"} \cup PipeRan, <<>>)

\* The branch without lines 313-315: a single sheet stays under its name.
xlsxBranchNoUnwrap(wb) ==
  IF wb.threw THEN Caught("XLSX.read", {"XLSX.read"})
  ELSE LET ran == {"XLSX.read"} \cup (IF wb.book = <<>> THEN {} ELSE PipeRan)
       IN IF \E i \in 1..Len(wb.book) : processThrows(wb.book[i].rows)
          THEN Caught("Invalid time value", ran)
          ELSE Step("awaitDb",
                    DSheets([i \in 1..Len(wb.book) |->
                               [name |-> wb.book[i].name,
                                rows |-> processedRows(wb.book[i].rows)]]),
                    ran, <<>>)

\* The .xlsx/.xls branch (lines 297-315), on an outcome of XLSX.read.
xlsxBranch(wb) ==
  IF wb.threw THEN Caught("XLSX.read", {"XLSX.read"})
  ELSE LET ran == {"XLSX.read"} \cup (IF wb.book = <<>> THEN {} ELSE PipeRan)
       IN IF \E i \in 1..Len(wb.book) : processThrows(wb.book[i].rows)
          THEN Caught("Invalid time value", ran)
          ELSE IF Len(wb.book) = 1
          THEN Step("awaitDb", DArray(processedRows(wb.book[1].rows)), ran, <<>>)
          ELSE Step("awaitDb",
                    DSheets([i \in 1..Len(wb.book) |->
                               [name |-> wb.book[i].name,
                                rows |-> processedRows(wb.book[i].rows)]]),
                    ran, <<>>)

\* The handler from its start to its first await (lines 253-335).
handlerStart(q, wb) ==
  IF ~q.hasFile THEN Reject(400, "No file uploaded", "", <<>>, {})
  ELSE
    CASE dispatch(q.fileName) = "json" ->
           IF jsonParses(q.content)
           THEN Step("awaitDb", jsonValue(q.content), {"JSON.parse"}, <<>>)
           ELSE Reject(400, "Invalid JSON format", "", <<>>, {"JSON.parse"})
      [] dispatch(q.fileName) = "xml" -> Step("awaitXml", NoData, {"parseXML"}, <<>>)
      [] dispatch(q.fileName) = "html" ->
           Step("awaitDb", parseHTML(q.content), {"parseHTML"}, <<>>)
      [] dispatch(q.fileName) = "csv" -> csvBranch(q.content)
      [] dispatch(q.fileName) = "xlsx" -> xlsxBranch(wb)
      [] dispatch(q.fileName) = "txt" ->
           IF jsonParses(q.content)
           THEN Step("awaitDb", jsonValue(q.content), {"trim", "JSON.parse"}, <<>>)
           ELSE Step("awaitXml", NoData, {"trim", "JSON.parse", "parseXML"}, <<>>)
      [] OTHER -> Reject(400, "Unsupported file format", "", <<>>, {})

\* The .txt branch without its inner try: a rejection of parseXML answers 400
\* as in the .xml branch.
afterXmlNoFallback(q) ==
  IF ~xmlRejects(q.content) THEN Step("awaitDb", xmlValue(q.content), q.ran, <<>>)
  ELSE Reject(400, "Invalid XML format", "", <<>>, q.ran)

\* The handler after await parseXML (lines 270-273 and 325-329).
afterXml(q) ==
  IF ~xmlRejects(q.content) THEN Step("awaitDb", xmlValue(q.content), q.ran, <<>>)
  ELSE IF dispatch(q.fileName) = "xml"
  THEN Reject(400, "Invalid XML format", "", <<>>, q.ran)
  ELSE Step("awaitDb", DContent(contentLines(q.content)), q.ran, <<>>)

\* storage.createEndpoint (storage.ts 16-24): the insert returns the new row,
\* or fails and nothing is stored.  json_data is declared notNull (schema.ts
\* 20): an insert without a dataset fails.
storeAfter(st, endpoint, ok) == IF ok THEN Append(st, endpoint) ELSE st
insertOutcomes(jsonData) ==
  IF jsonData.tag \in {"null", "undefined"} THEN {FALSE} ELSE BOOLEAN

NewRequest(hasFile, fileName, content) ==
  [pc |-> "recv", hasFile |-> hasFile, fileName |-> fileName, content |-> content,
   jsonData |-> NoData, ran |-> {}, resp |-> <<>>, id |-> 0]

\* The handler with jsonData declared outside it: a step of one request
\* writes the dataset of every request.
AdvanceShared(r, step) ==
  reqs' = [i \in 1..Len(reqs) |->
             IF i = r
             THEN [reqs[i] EXCEPT !.pc = step.pc, !.jsonData = step.jsonData,
                                  !.ran = step.ran, !.resp = @ \o step.resp]
             ELSE [reqs[i] EXCEPT !.jsonData = step.jsonData]]

\* A step of the handler of request r: pc, jsonData and the calls made are
\* locals of the call (line 258), the response goes to its own res.
Advance(r, step) ==
  reqs' = [reqs EXCEPT ![r] = [@ EXCEPT !.pc = step.pc, !.jsonData = step.jsonData,
                                        !.ran = step.ran, !.resp = @ \o step.resp]]

(***************************************************************************)
(* Spec: the actions of the upload handler.                                *)
(***************************************************************************)
Init == PipeIdle /\ SrvIdle /\ QryIdle

\* A POST /api/upload arrives, with a file or without one.
Arrive ==
  /\ Len(reqs) < MaxReq
  /\ \/ \E fileName \in FileNames, content \in Contents :
          reqs' = Append(reqs, NewRequest(TRUE, fileName, content))
     \/ reqs' = Append(reqs, NewRequest(FALSE, <<>>, Blank))
  /\ UNCHANGED <<store, gets, pipeVars, qryVars>>

\* The handler runs to its first await or to a response.
Handle(r) ==
  /\ reqs[r].pc = "recv"
  /\ \E wb \in (IF reqs[r].hasFile /\ dispatch(reqs[r].fileName) = "xlsx"
                THEN xlsxOutcomes(reqs[r].content) ELSE {NoBook}) :
       Advance(r, handlerStart(reqs[r], wb))
  /\ UNCHANGED <<store, gets, pipeVars, qryVars>>

\* parseXML settles and the handler runs on.
XmlSettle(r) ==
  /\ reqs[r].pc = "awaitXml"
  /\ Advance(r, afterXml(reqs[r]))
  /\ UNCHANGED <<store, gets, pipeVars, qryVars>>

\* The insert of createEndpoint succeeds or fails.
DbInsert(r) ==
  /\ reqs[r].pc = "awaitDb"
  /\ \E ok \in insertOutcomes(reqs[r].jsonData) :
       /\ store' = storeAfter(store,
                              [id |-> Len(store) + 1, jsonData |-> reqs[r].jsonData,
                               fileName |-> reqs[r].fileName, by |-> r], ok)
       /\ reqs' = [reqs EXCEPT ![r] = [@ EXCEPT !.pc = IF ok THEN "inserted" ELSE "dbFailed",
                                                !.id = IF ok THEN Len(store) + 1 ELSE 0]]
  /\ UNCHANGED <<gets, pipeVars, qryVars>>

\* The handler after await storage.createEndpoint: res.json (lines 343-347), or
\* the catch (lines 349-354).
Respond(r) ==
  /\ reqs[r].pc \in {"inserted", "dbFailed"}
  /\ Advance(r, IF reqs[r].pc = "inserted"
                THEN Step("done", reqs[r].jsonData, reqs[r].ran,
                          <<OkResp(reqs[r].id, reqs[r].jsonData)>>)
                ELSE Step("done", reqs[r].jsonData, reqs[r].ran,
                          <<ErrorResp(500, "File processing error", "insert failed", <<>>)>>))
  /\ UNCHANGED <<store, gets, pipeVars, qryVars>>

Next ==
  \/ Arrive
  \/ \E r \in 1..Len(reqs) : Handle(r)
  \/ \E r \in 1..Len(reqs) : XmlSettle(r)
  \/ \E r \in 1..Len(reqs) : DbInsert(r)
  \/ \E r \in 1..Len(reqs) : Respond(r)

Spec == Init /\ [][Next]_vars

(***************************************************************************)
(* Properties of the upload handler, stated over Spec.                     *)
(***************************************************************************)
StoredBy(r) == {i \in 1..Len(store) : store[i].by = r}
Done(r) == reqs[r].pc = "done"

\* C7: a request sends at most one response, and none before it is over; a
\* request that is over has sent exactly one, which is either a success
\* carrying the dataset, with exactly one endpoint stored for the request and
\* holding that dataset, or an error of status 400 or 500, with no endpoint
\* stored for the request.
C7_OneOutcome ==
  \A r \in 1..Len(reqs) :
    /\ Len(reqs[r].resp) = (IF Done(r) THEN 1 ELSE 0)
    /\ Done(r) =>
         LET answer == reqs[r].resp[1]
         IN \/ /\ answer.status = 200
               /\ answer.jsonData = reqs[r].jsonData
               /\ Cardinality(StoredBy(r)) = 1
               /\ \A i \in StoredBy(r) :
                    store[i].jsonData = answer.jsonData /\ store[i].id = answer.id
            \/ /\ answer.status \in {400, 500}
               /\ answer.jsonData = NoData
               /\ StoredBy(r) = {}

\* Both outcomes in one state: a request answered with its stored dataset and
\* a request answered with an error.
C7_Witness ==
  /\ \E r \in 1..Len(reqs) :
       Done(r) /\ reqs[r].resp[1].status = 200 /\ reqs[r].resp[1].jsonData.tag = "array"
         /\ StoredBy(r) # {}
  /\ \E r \in 1..Len(reqs) : Done(r) /\ reqs[r].resp[1].status = 400

\* The extensions the dispatcher is specified to support.
SupportedExts == {ExtJson, ExtXml, ExtHtml, ExtHtm, ExtCsv, ExtXlsx, ExtXls, ExtTxt}
Supported(fileName) == \E ext \in SupportedExts : endsWith(fileName, ext)

\* C8: a request whose file name ends in no supported extension calls no
\* decoder and no helper, never waits for a parser or for the store, gets no
\* dataset and no endpoint, and is answered with status 400 and the error
\* "Unsupported file format", whatever its content.
C8_UnsupportedRejected ==
  \A r \in 1..Len(reqs) :
    (reqs[r].hasFile /\ ~Supported(reqs[r].fileName)) =>
      /\ reqs[r].ran = {}
      /\ reqs[r].pc \in {"recv", "done"}
      /\ reqs[r].jsonData = NoData
      /\ StoredBy(r) = {}
      /\ Done(r) => reqs[r].resp = <<ErrorResp(400, "Unsupported file format", "", <<>>)>>

\* A file a.pdf whose content is valid JSON, rejected.
C8_Witness ==
  \E r \in 1..Len(reqs) :
    /\ reqs[r].fileName = <<"a", ".", "p", "d", "f">>
    /\ reqs[r].content = JsonRows
    /\ Done(r)
    /\ reqs[r].resp[1].error = "Unsupported file format"

\* C9: a .csv request whose parse reports errors calls nothing after
\* Papa.parse, gets no dataset and no endpoint, and is answered with status
\* 400, the error "CSV parsing errors" and every error of the parse, in order.
C9_CsvErrorsFailWhole ==
  \A r \in 1..Len(reqs) :
    (/\ reqs[r].hasFile
     /\ endsWith(reqs[r].fileName, ExtCsv)
     /\ Len(papaErrors(textOf(reqs[r].content))) > 0) =>
      /\ reqs[r].ran \subseteq {"Papa.parse"}
      /\ reqs[r].pc \in {"recv", "done"}
      /\ reqs[r].jsonData = NoData
      /\ StoredBy(r) = {}
      /\ Done(r) =>
           reqs[r].resp = <<ErrorResp(400, "CSV parsing errors", "",
                                      papaErrors(textOf(reqs[r].content)))>>

\* A delimited text with a short line and a long line among its rows, rejected
\* with both errors.
C9_Witness ==
  \E r \in 1..Len(reqs) :
    /\ reqs[r].fileName = <<"a">> \o ExtCsv
    /\ reqs[r].content = CsvRagged
    /\ Done(r)
    /\ Len(reqs[r].resp[1].details) = 2
    /\ reqs[r].ran = {"Papa.parse"}

\* C10: a .json request whose content is not valid JSON, and a .xml request
\* whose content is not well-formed XML, gets no endpoint and is answered with
\* status 400 and an invalid-format error.
C10_InvalidContentRejected ==
  \A r \in 1..Len(reqs) :
    (/\ reqs[r].hasFile
     /\ \/ endsWith(reqs[r].fileName, ExtJson) /\ reqs[r].content.fmt # "json"
        \/ dispatch(reqs[r].fileName) = "xml" /\ reqs[r].content.fmt # "xml") =>
      /\ StoredBy(r) = {}
      /\ Done(r) =>
           /\ reqs[r].resp[1].status = 400
           /\ reqs[r].resp[1].error \in {"Invalid JSON format", "Invalid XML format"}

\* C11: a request whose file name ends in .htm is decoded by parseHTML: once
\* the handler has run, parseHTML has been called and the dataset is the one
\* parseHTML makes of the content, as for a name ending in .html.
C11_HtmAsHtml ==
  \A r \in 1..Len(reqs) :
    (reqs[r].hasFile /\ endsWith(reqs[r].fileName, ExtHtm) /\ reqs[r].pc # "recv") =>
      /\ reqs[r].ran = {"parseHTML"}
      /\ reqs[r].jsonData = parseHTML(reqs[r].content)

\* The suffixes in the order the chain is specified to try them, and the
\* decoding path of each.
ExtOrder == <<ExtJson, ExtXml, ExtHtml, ExtCsv, ExtXlsx, ExtXls, ExtTxt>>
PathOf == <<"json", "xml", "html", "csv", "xlsx", "xlsx", "txt">>
FirstMatch(fileName) ==
  LET hits == {i \in DOMAIN ExtOrder : endsWith(fileName, ExtOrder[i])}
  IN IF hits = {} THEN "unsupported"
     ELSE PathOf[CHOOSE i \in hits : \A j \in hits : i <= j]

\* The calls a decoding path can make, and the call it starts with.
PathCalls(path) ==
  CASE path = "json" -> {"JSON.parse"}
    [] path = "xml" -> {"parseXML"}
    [] path = "html" -> {"parseHTML"}
    [] path = "csv" -> {"Papa.parse"} \cup PipeRan
    [] path = "xlsx" -> {"XLSX.read"} \cup PipeRan
    [] path = "txt" -> {"trim", "JSON.parse", "parseXML"}
    [] OTHER -> {}
PathEntry(path) ==
  CASE path = "json" -> {"JSON.parse"}
    [] path = "xml" -> {"parseXML"}
    [] path = "html" -> {"parseHTML"}
    [] path = "csv" -> {"Papa.parse"}
    [] path = "xlsx" -> {"XLSX.read"}
    [] path = "txt" -> {"trim"}
    [] OTHER -> {}

\* C12: once the handler has run on a file, the calls it has made are those
\* of exactly one decoding path, started, and that path is the first suffix
\* in the order json, xml, html, csv, xlsx, xls, txt that the file name ends
\* with, or the unsupported path with no call at all, whatever the content.
C12_OnePathBySuffix ==
  \A r \in 1..Len(reqs) :
    (reqs[r].hasFile /\ reqs[r].pc # "recv") =>
      /\ PathEntry(FirstMatch(reqs[r].fileName)) \subseteq reqs[r].ran
      /\ reqs[r].ran \subseteq PathCalls(FirstMatch(reqs[r].fileName))
      /\ FirstMatch(reqs[r].fileName) = "unsupported" =>
           reqs[r].resp = <<ErrorResp(400, "Unsupported file format", "", <<>>)>>

\* A name holding .json before its .txt suffix has taken the txt path on a
\* JSON content, and the same content named .json the json path.
C12_Witness ==
  /\ \E r \in 1..Len(reqs) :
       /\ reqs[r].fileName = <<"a">> \o ExtJson \o ExtTxt
       /\ reqs[r].content = JsonRows
       /\ reqs[r].ran = {"trim", "JSON.parse"}
  /\ \E r \in 1..Len(reqs) :
       /\ reqs[r].fileName = <<"a">> \o ExtJson
       /\ reqs[r].content = JsonRows
       /\ reqs[r].ran = {"JSON.parse"}

\* C13: a .txt request calls JSON.parse on the trimmed content, and parseXML
\* only when JSON.parse has thrown; once the decoders have settled its dataset
\* is the JSON value if the content is JSON, else the result of parseXML if
\* parseXML did not reject, else {content: lines} with the trimmed lines of
\* the trimmed content in order; it is never answered with status 400.
C13_TxtFallbackOrder ==
  \A r \in 1..Len(reqs) :
    (reqs[r].hasFile /\ endsWith(reqs[r].fileName, ExtTxt) /\ reqs[r].pc # "recv") =>
      LET c == reqs[r].content
      IN /\ reqs[r].ran = (IF jsonParses(c) THEN {"trim", "JSON.parse"}
                           ELSE {"trim", "JSON.parse", "parseXML"})
         /\ reqs[r].pc # "awaitXml" =>
              reqs[r].jsonData =
                (IF jsonParses(c) THEN jsonValue(c)
                 ELSE IF ~xmlRejects(c) THEN xmlValue(c)
                 ELSE DContent(contentLines(c)))
         /\ Done(r) =>
              /\ reqs[r].resp[1].status \in {200, 500}
              /\ reqs[r].resp[1].error \notin {"Invalid JSON format", "Invalid XML format"}

\* A text that is neither JSON nor XML, answered with its two trimmed lines.
C13_Witness ==
  \E r \in 1..Len(reqs) :
    /\ reqs[r].fileName = <<"a">> \o ExtTxt
    /\ reqs[r].content = PlainText
    /\ Done(r)
    /\ reqs[r].resp[1].status = 200
    /\ reqs[r].resp[1].jsonData = DContent(<< <<"x">>, <<"{">> >>)

\* C14: once the handler has run on a workbook, the dataset of a workbook of
\* two or more sheets has one entry per sheet, under the sheet's name and in
\* the sheets' order, holding the rows that cleanData, detectDataTypes and
\* convertDataTypes make of that sheet alone; the dataset of a workbook of one
\* sheet is the array of that sheet's rows.
C14_SheetsMapping ==
  \A r \in 1..Len(reqs) :
    (/\ reqs[r].hasFile
     /\ dispatch(reqs[r].fileName) = "xlsx"
     /\ reqs[r].content.fmt = "xlsx"
     /\ reqs[r].pc # "recv") =>
      LET book == reqs[r].content.book
          data == reqs[r].jsonData
      IN /\ Len(book) = 1 => data = DArray(processedRows(book[1].rows))
         /\ Len(book) >= 2 =>
              /\ data.tag = "sheets"
              /\ Len(data.sheets) = Len(book)
              /\ \A i \in 1..Len(book) :
                   /\ data.sheets[i].name = book[i].name
                   /\ data.sheets[i].rows = processedRows(book[i].rows)
              /\ \A i, j \in 1..Len(book) :
                   data.sheets[i].name = data.sheets[j].name => i = j

\* A workbook of two sheets answered with both, the column a typed string in
\* the first sheet and date in the second; and a workbook of one sheet
\* answered with an array.
C14_Witness ==
  /\ \E r \in 1..Len(reqs) :
       /\ reqs[r].content = BookTwo /\ Done(r) /\ reqs[r].resp[1].status = 200
       /\ Len(reqs[r].resp[1].jsonData.sheets) = 2
       /\ Get(reqs[r].resp[1].jsonData.sheets[1].rows[1], PlainA) = Str(TextX)
       /\ Get(reqs[r].resp[1].jsonData.sheets[2].rows[1], PlainA) = ToISO(Str(TextDate))
  /\ \E r \in 1..Len(reqs) :
       /\ reqs[r].content = BookOne /\ Done(r) /\ reqs[r].resp[1].status = 200
       /\ reqs[r].resp[1].jsonData.tag = "array"
       /\ Len(reqs[r].resp[1].jsonData.rows) = 2

\* C15: once the handler has run on an HTML document, the dataset has one
\* entry in tables for every table of the document, holding one array per row
\* with the trimmed texts of the row's cells, and one entry in lists for every
\* list, holding the trimmed texts of its items, in document order, tables
\* without a cell and lists without an item included.
C15_EveryTableAndList ==
  \A r \in 1..Len(reqs) :
    (/\ reqs[r].hasFile
     /\ dispatch(reqs[r].fileName) = "html"
     /\ reqs[r].content.fmt = "html"
     /\ reqs[r].pc # "recv") =>
      LET dom == reqs[r].content.dom
          data == reqs[r].jsonData
      IN /\ Len(data.tables) = Len(dom.tables)
         /\ \A i \in 1..Len(dom.tables) :
              data.tables[i] = [j \in 1..Len(dom.tables[i]) |-> trimAll(dom.tables[i][j])]
         /\ Len(data.lists) = Len(dom.lists)
         /\ \A i \in 1..Len(dom.lists) : data.lists[i] = trimAll(dom.lists[i])

(***************************************************************************)
(* Properties of the .csv path, stated over PipeSpec.                      *)
(***************************************************************************)
\* A delimited text whose every line has one field per header key and is not
\* an empty line.
WellFormedText(text) ==
  /\ Len(text.header) >= 1
  /\ \A i \in 1..Len(text.lines) :
       Len(text.lines[i]) = Len(text.header) /\ ~isEmptyLine(text.lines[i])

\* C16: a delimited text with a header and N well-formed lines is not
\* rejected, and the .csv path makes N rows of it, the i-th made of the i-th
\* line, all with the same key set.
C16_RowCountAndOrder ==
  (pstage \in {"rejected", "raw", "clean", "typed", "done", "threw"}
     /\ porig # <<>> /\ WellFormedText(ptext)) =>
    /\ pstage \notin {"rejected", "threw"}
    /\ Len(pdata) = Len(ptext.lines)
    /\ pstage = "done" =>
         /\ Len(pout) = Len(ptext.lines)
         /\ \A i \in 1..Len(pout) :
              /\ pout[i] = convertRow(cleanData(<<papaRow(ptext.header, ptext.lines[i])>>)[1],
                                      ptypes)
              /\ KeySet(pout[i]) = KeySet(pout[1])

(***************************************************************************)
(* applyFilter (routes.ts 104-120).                                        *)
(***************************************************************************)
\* The strings compared as they are.
toLowerCaseLeftOut(t) == t
toLowerCase(t) == [i \in 1..Len(t) |-> toLowerCaseChar(t[i])]

\* value == filter.value: a number and a string compared as numbers, null
\* equal to undefined.
looseEquals(v, w) ==
  \/ v = w /\ v # NaN
  \/ /\ {v.k, w.k} = {"number", "string"}
     /\ ToNumber(v) # NaN /\ ToNumber(w) # NaN /\ ToNumber(v).n = ToNumber(w).n
  \/ {v.k, w.k} = {"null", "undefined"}

\* value === filter.value: the same type and the same value; NaN equals nothing.
strictEquals(v, w) == v = w /\ v # NaN

\* Number(v) > Number(w) and Number(v) < Number(w): false when either is NaN.
numberGreater(v, w) ==
  ToNumber(v) # NaN /\ ToNumber(w) # NaN /\ ToNumber(v).n > ToNumber(w).n
numberLess(v, w) ==
  ToNumber(v) # NaN /\ ToNumber(w) # NaN /\ ToNumber(v).n < ToNumber(w).n

\* The callback of data.filter (lines 105-119).
keeps(item, filter) ==
  LET value == Get(item, filter.field)
  IN CASE filter.operator = "equals" -> strictEquals(value, filter.value)
       [] filter.operator = "contains" ->
            includes(toLowerCase(ToStr(value).s), toLowerCase(filter.value.s))
       [] filter.operator = "greaterThan" -> numberGreater(value, filter.value)
       [] filter.operator = "lessThan" -> numberLess(value, filter.value)
       [] OTHER -> TRUE

\* filter.value.toLowerCase() of a value that is no string is a TypeError.
filterThrows(data, filter) ==
  filter.operator = "contains" /\ filter.value.k # "string" /\ data # <<>>

applyFilter(data, filter) == SelectSeq(data, LAMBDA item : keeps(item, filter))

(***************************************************************************)
(* applySort (routes.ts 122-133).                                          *)
(***************************************************************************)
\* The collation of localeCompare over the characters of the model: white
\* space, punctuation, digits, letters; a lower-case letter before its
\* upper-case letter when nothing else tells two strings apart.
CollationOrder == <<" ", "_", "-">> \o DigitChars \o LowerLetters
primaryWeight(c) ==
  IF \E i \in DOMAIN CollationOrder : CollationOrder[i] = toLowerCaseChar(c)
  THEN CHOOSE i \in DOMAIN CollationOrder : CollationOrder[i] = toLowerCaseChar(c)
  ELSE 0
caseWeight(c) == IF c \in Range(UpperLetters) THEN 1 ELSE 0

RECURSIVE compareWeights(_, _)
compareWeights(x, y) ==
  IF x = <<>> /\ y = <<>> THEN 0
  ELSE IF x = <<>> THEN -1
  ELSE IF y = <<>> THEN 1
  ELSE IF Head(x) < Head(y) THEN -1
  ELSE IF Head(x) > Head(y) THEN 1
  ELSE compareWeights(Tail(x), Tail(y))

localeCompare(t, u) ==
  LET primary == compareWeights([i \in 1..Len(t) |-> primaryWeight(t[i])],
                                [i \in 1..Len(u) |-> primaryWeight(u[i])])
  IN IF primary # 0 THEN primary
     ELSE compareWeights([i \in 1..Len(t) |-> caseWeight(t[i])],
                         [i \in 1..Len(u) |-> caseWeight(u[i])])

\* The modifier without the test of the direction.
modifierAlwaysAsc(sort) == 1

\* sort.direction === "asc" ? 1 : -1 (line 126)
modifier(sort) == IF sort.direction = "asc" THEN 1 ELSE -1

\* The comparator (lines 123-132) as Array.prototype.sort uses it: a result
\* of NaN counts as 0.
comparefn(a, b, sort) ==
  LET aVal == Get(a, sort.field)
      bVal == Get(b, sort.field)
  IN IF aVal.k = "string" THEN localeCompare(aVal.s, ToStr(bVal).s) * modifier(sort)
     ELSE IF ToNumber(aVal) = NaN \/ ToNumber(bVal) = NaN THEN 0
     ELSE (ToNumber(aVal).n - ToNumber(bVal).n) * modifier(sort)

\* [...data].sort(comparefn) as the engine of Node runs it on an array shorter
\* than 64: the run at the start of the array is counted, and reversed when it
\* descends strictly; every later element is then put in place by binary
\* insertion.
RECURSIVE runLength(_, _, _, _)
runLength(arr, idx, descending, sort) ==
  IF idx > Len(arr) THEN idx - 1
  ELSE IF descending /\ comparefn(arr[idx], arr[idx - 1], sort) >= 0 THEN idx - 1
  ELSE IF ~descending /\ comparefn(arr[idx], arr[idx - 1], sort) < 0 THEN idx - 1
  ELSE runLength(arr, idx + 1, descending, sort)

reverseRange(arr, n) == [i \in 1..Len(arr) |-> IF i <= n THEN arr[n + 1 - i] ELSE arr[i]]

countAndMakeRun(arr, sort) ==
  LET descending == comparefn(arr[2], arr[1], sort) < 0
      n == runLength(arr, 3, descending, sort)
  IN [run |-> n, arr |-> IF descending THEN reverseRange(arr, n) ELSE arr]

\* The place of the pivot among arr[left .. right - 1].
RECURSIVE insertionPoint(_, _, _, _, _)
insertionPoint(arr, pivot, left, right, sort) ==
  IF left >= right THEN left
  ELSE LET mid == left + ((right - left) \div 2)
       IN IF comparefn(pivot, arr[mid], sort) < 0
          THEN insertionPoint(arr, pivot, left, mid, sort)
          ELSE insertionPoint(arr, pivot, mid + 1, right, sort)

RECURSIVE binaryInsertionSort(_, _, _)
binaryInsertionSort(arr, start, sort) ==
  IF start > Len(arr) THEN arr
  ELSE LET at == insertionPoint(arr, arr[start], 1, start, sort)
       IN binaryInsertionSort(SubSeq(arr, 1, at - 1) \o <<arr[start]>>
                                \o SubSeq(arr, at, start - 1)
                                \o SubSeq(arr, start + 1, Len(arr)),
                              start + 1, sort)

applySort(data, sort) ==
  IF Len(data) < 2 THEN data
  ELSE binaryInsertionSort(countAndMakeRun(data, sort).arr,
                           countAndMakeRun(data, sort).run + 1, sort)

(***************************************************************************)
(* QuerySpec: applyFilter and applySort on bounded arrays of rows, each    *)
(* row holding its place in the array under the key id.                    *)
(***************************************************************************)
MaxQueryRows == 3

FieldKey == <<"a">>
IdKey == <<"i","d">>
TextBob == <<"B","o","b">>
TextAlice == <<"a","l","i","c","e">>
Text10 == <<"1","0">>
Text011 == <<"0","1","1">>
Text5 == <<"5">>

\* A row with the value v under the field, or without the field.
QueryRow(v, i) ==
  IF v = Undefined THEN MkRow(<<IdKey>>, <<Num(i)>>)
  ELSE MkRow(<<FieldKey, IdKey>>, <<v, Num(i)>>)
RowsOver(values) ==
  UNION {{[i \in 1..m |-> QueryRow(col[i], i)] : col \in [1..m -> values]}
           : m \in 0..MaxQueryRows}

FilterFieldValues ==
  {Undefined, Null, Str(<<>>), Str(<<" ">>), Str(TextX), Str(TextBob),
   Num(10), Str(Text10)}
SortFieldValues ==
  {Undefined, Null, Num(0), Num(10), Str(Text10), Str(Text011), Str(Text5),
   Str(TextBob), Str(TextAlice)}

Filters ==
  {[field |-> FieldKey, operator |-> op, value |-> v] :
     op \in {"equals"}, v \in {Num(10), Str(Text10), Null}}
    \cup {[field |-> FieldKey, operator |-> op, value |-> v] :
            op \in {"contains"},
            v \in {Str(<<"O","B">>), Str(<<"1">>), Str(<<"u">>), Num(10)}}
    \cup {[field |-> FieldKey, operator |-> op, value |-> v] :
            op \in {"greaterThan", "lessThan"}, v \in {Num(5), Str(Text5)}}
    \cup {[field |-> FieldKey, operator |-> "startsWith", value |-> Str(TextBob)]}
Sorts ==
  {[field |-> FieldKey, direction |-> d] : d \in {"asc", "desc", "up"}}

QryInit ==
  /\ qstage = "stored" /\ qout = <<>>
  /\ \/ qdata \in RowsOver(FilterFieldValues) /\ qfilter \in Filters /\ qsort = NoSort
     \/ qdata \in RowsOver(SortFieldValues) /\ qfilter = NoFilter /\ qsort \in Sorts
  /\ PipeIdle
  /\ SrvIdle

ApplyFilter ==
  /\ qstage = "stored" /\ qfilter # NoFilter
  /\ qout' = IF filterThrows(qdata, qfilter) THEN <<>> ELSE applyFilter(qdata, qfilter)
  /\ qstage' = IF filterThrows(qdata, qfilter) THEN "threw" ELSE "filtered"
  /\ UNCHANGED <<qdata, qfilter, qsort, pipeVars, srvVars>>

ApplySort ==
  /\ qstage = "stored" /\ qsort # NoSort
  /\ qout' = applySort(qdata, qsort)
  /\ qstage' = "sorted"
  /\ UNCHANGED <<qdata, qfilter, qsort, pipeVars, srvVars>>

QryNext == ApplyFilter \/ ApplySort

QuerySpec == QryInit /\ [][QryNext]_vars

(***************************************************************************)
(* Properties of applyFilter and applySort, stated over QuerySpec.         *)
(***************************************************************************)
\* A number, or a string that spells one.
IsNumeric(v) ==
  \/ v.k = "number" /\ v # NaN
  \/ v.k = "string" /\ IsNumText(trim(v.s))
NumericOf(v) == IF v.k = "number" THEN v.n ELSE ParseNum(trim(v.s))

\* C17: with greaterThan (lessThan) and a numeric threshold, applyFilter
\* returns, in order, exactly the rows whose field holds a numeric value
\* greater (less) than the threshold; a row whose field is null, missing, an
\* empty string or a string that spells no number is never returned.
C17_NumericComparison ==
  (/\ qstage = "filtered"
   /\ qfilter.operator \in {"greaterThan", "lessThan"}
   /\ IsNumeric(qfilter.value)) =>
    qout = SelectSeq(qdata,
             LAMBDA item :
               /\ IsNumeric(Get(item, qfilter.field))
               /\ IF qfilter.operator = "greaterThan"
                  THEN NumericOf(Get(item, qfilter.field)) > NumericOf(qfilter.value)
                  ELSE NumericOf(Get(item, qfilter.field)) < NumericOf(qfilter.value))

\* C18: with equals, applyFilter returns, in order, exactly the rows whose
\* field value has the type and the value of the filter value; the number 10
\* is not returned for the string "10", and a row without the field is not
\* returned for a string or a number.
C18_EqualsIsStrict ==
  (qstage = "filtered" /\ qfilter.operator = "equals") =>
    /\ qout = SelectSeq(qdata,
                LAMBDA item :
                  /\ Get(item, qfilter.field).k = qfilter.value.k
                  /\ Get(item, qfilter.field).n = qfilter.value.n
                  /\ Get(item, qfilter.field).s = qfilter.value.s)
    /\ \A i \in 1..Len(qout) :
         /\ qfilter.value = Str(Text10) => Get(qout[i], qfilter.field) # Num(10)
         /\ qfilter.value.k \in {"string", "number"} => HasKey(qout[i], qfilter.field)

\* The filter value "10" on rows holding the number 10, the string "10" and no
\* field: only the row of the string is returned.
C18_Witness ==
  /\ qstage = "filtered" /\ qfilter.operator = "equals" /\ qfilter.value = Str(Text10)
  /\ \E i, j, k \in 1..Len(qdata) :
       /\ Get(qdata[i], FieldKey) = Num(10)
       /\ Get(qdata[j], FieldKey) = Str(Text10)
       /\ ~HasKey(qdata[k], FieldKey)
  /\ Len(qout) = 1
  /\ Get(qout[1], FieldKey) = Str(Text10)

\* The letters of a string turned to upper case.
toUpperCaseChar(c) ==
  IF c \in Range(LowerLetters)
  THEN UpperLetters[CHOOSE i \in DOMAIN LowerLetters : LowerLetters[i] = c]
  ELSE c
UpperCased(t) == [i \in 1..Len(t) |-> toUpperCaseChar(t[i])]
LowerCased(t) == [i \in 1..Len(t) |-> toLowerCaseChar(t[i])]
IdsOf(rows) == [i \in 1..Len(rows) |-> Get(rows[i], IdKey).n]

\* The rows with every string under the field turned to upper case.
UpperCasedRows(rows) ==
  [i \in 1..Len(rows) |->
     IF Get(rows[i], FieldKey).k = "string"
     THEN Put(rows[i], FieldKey, Str(UpperCased(Get(rows[i], FieldKey).s)))
     ELSE rows[i]]

\* C19: with contains and a string as filter value, applyFilter returns, in
\* order, exactly the rows of which the string form of the field value, in
\* lower case, holds the filter value, in lower case, as a substring; the rows
\* returned are the same when the filter value or the field values are given
\* in the other letter case.
C19_ContainsIgnoresCase ==
  (qstage = "filtered" /\ qfilter.operator = "contains" /\ qfilter.value.k = "string") =>
    /\ qout = SelectSeq(qdata,
                LAMBDA item :
                  \E at \in 0..Len(ToStr(Get(item, qfilter.field)).s) :
                    /\ at + Len(qfilter.value.s) <= Len(ToStr(Get(item, qfilter.field)).s)
                    /\ \A d \in 1..Len(qfilter.value.s) :
                         toLowerCaseChar(ToStr(Get(item, qfilter.field)).s[at + d])
                           = toLowerCaseChar(qfilter.value.s[d]))
    /\ \A value \in {UpperCased(qfilter.value.s), LowerCased(qfilter.value.s)} :
         /\ applyFilter(qdata, [qfilter EXCEPT !.value = Str(value)]) = qout
         /\ IdsOf(applyFilter(UpperCasedRows(qdata), [qfilter EXCEPT !.value = Str(value)]))
              = IdsOf(qout)

\* The filter value "OB" returns the row of "Bob" and not the row of "x".
C19_Witness ==
  /\ qstage = "filtered" /\ qfilter.operator = "contains"
  /\ qfilter.value = Str(<<"O", "B">>)
  /\ \E i, j \in 1..Len(qdata) :
       /\ Get(qdata[i], FieldKey) = Str(TextBob)
       /\ Get(qdata[j], FieldKey) = Str(TextX)
  /\ qout # <<>>
  /\ \A i \in 1..Len(qout) : Get(qout[i], FieldKey) = Str(TextBob)

\* The place in rows of the row that stood at place i of the input.
PlaceOf(rows, i) == CHOOSE p \in 1..Len(rows) : Get(rows[p], IdKey) = Num(i)
ComparesEqual(a, b, sort) == comparefn(a, b, sort) = 0 /\ comparefn(b, a, sort) = 0

\* C20: the result of applySort holds every input row once and no other row,
\* and two input rows whose field values compare as equal, either way round,
\* stand in the result in their input order, for every direction.
C20_StablePermutation ==
  qstage = "sorted" =>
    /\ Len(qout) = Len(qdata)
    /\ \A i \in 1..Len(qdata) : \E p \in 1..Len(qout) : qout[p] = qdata[i]
    /\ \A i, j \in 1..Len(qdata) :
         (i < j /\ ComparesEqual(qdata[i], qdata[j], qsort)) =>
           PlaceOf(qout, i) < PlaceOf(qout, j)

\* The comparison of two field values as specified: the collation when both
\* are strings, the difference of their numbers otherwise (0 when it is NaN).
BothStringsCompare(aVal, bVal, sort) ==
  IF aVal.k = "string" /\ bVal.k = "string"
  THEN localeCompare(aVal.s, bVal.s) * modifier(sort)
  ELSE IF ToNumber(aVal) = NaN \/ ToNumber(bVal) = NaN THEN 0
  ELSE (ToNumber(aVal).n - ToNumber(bVal).n) * modifier(sort)

\* C21: for every two rows of a sorted array, taken in either order, the
\* comparator gives the collation of the two field values when both are
\* strings and the difference of their numbers when at least one is not.
C21_StringsOnlyWhenBoth ==
  qstage = "sorted" =>
    \A i, j \in 1..Len(qdata) :
      comparefn(qdata[i], qdata[j], qsort)
        = BothStringsCompare(Get(qdata[i], qsort.field), Get(qdata[j], qsort.field), qsort)

(***************************************************************************)
(* GET /api/:id (routes.ts 358-384).  A GET request looks the endpoint up, *)
(* parses the filter and sort options of its query string, and answers the *)
(* stored dataset, filtered and sorted when it is an array.  GetSpec       *)
(* starts from a store that uploads have filled.                           *)
(***************************************************************************)
MaxGet == 2

\* Datasets that an upload stores: a JSON array of rows, a workbook of two
\* sheets, the tables and lists of an HTML page, a JSON object, the lines of
\* a plain text.
StoredRows == <<QueryRow(Null, 1), QueryRow(Str(Text5), 2), QueryRow(Num(0), 3)>>
StoredSheets ==
  DSheets(<<[name |-> "Sheet1", rows |-> StoredRows], [name |-> "Sheet2", rows |-> <<>>]>>)
StoredDatasets ==
  {DArray(StoredRows), DArray(<<>>), StoredSheets, DHtml(<<>>, <<>>), DTree("{a:7}"),
   DContent(<< <<"x">> >>)}
Endpoint(id, jsonData) ==
  [id |-> id, jsonData |-> jsonData, fileName |-> <<"d">>, by |-> id]
InitialStores ==
  {<<Endpoint(1, d)>> : d \in StoredDatasets}
    \cup {<<Endpoint(1, DArray(StoredRows)), Endpoint(2, StoredSheets)>>}
NoEndpoint == [id |-> 0, jsonData |-> NoData, fileName |-> <<>>, by |-> 0]

\* req.query: the filter and sort parameters, NoFilter / NoSort for a missing
\* one; malformed stands for a parameter that is not JSON text.
GetFilters ==
  {[field |-> FieldKey, operator |-> "lessThan", value |-> Str(<<"3">>)],
   [field |-> FieldKey, operator |-> "contains", value |-> Num(10)]}
GetSorts == {[field |-> FieldKey, direction |-> d] : d \in {"asc", "desc"}}
Queries ==
  {[filter |-> f, sort |-> s, malformed |-> FALSE] :
     f \in {NoFilter} \cup GetFilters, s \in {NoSort} \cup GetSorts}
    \cup {[filter |-> NoFilter, sort |-> NoSort, malformed |-> TRUE]}
\* req.params.id: 0 stands for a text that is no uuid, 3 for a uuid of no row.
GetIds == 0..3

GetOk(jsonData) == [status |-> 200, error |-> "", jsonData |-> jsonData]
GetError(status, error) == [status |-> status, error |-> error, jsonData |-> NoData]
NewGet(id, query) ==
  [pc |-> "lookup", id |-> id, query |-> query, endpoint |-> NoEndpoint,
   ran |-> {}, resp |-> <<>>]

\* storage.getEndpoint (storage.ts 26-34): the row with the id, or undefined.
\* The id column is a uuid (schema.ts 16): the select throws for an id that
\* is not one.
getEndpointThrows(id) == id = 0
getEndpointFinds(st, id) == \E i \in 1..Len(st) : st[i].id = id
getEndpoint(st, id) ==
  IF getEndpointFinds(st, id)
  THEN st[CHOOSE i \in 1..Len(st) : st[i].id = id]
  ELSE NoEndpoint

\* The test without Array.isArray: every dataset is taken for an array.
isArrayOmitted(jsonData) == TRUE

\* Array.isArray(jsonData) (lines 372 and 376).
isArray(jsonData) == jsonData.tag = "array"

\* Lines 372-374.
filterStep(jsonData, filter) ==
  IF isArray(jsonData) /\ filter # NoFilter
  THEN DArray(applyFilter(jsonData.rows, filter))
  ELSE jsonData

\* Lines 376-378.
sortStep(jsonData, sort) ==
  IF isArray(jsonData) /\ sort # NoSort
  THEN DArray(applySort(jsonData.rows, sort))
  ELSE jsonData

\* The two steps the other way round: the sort before the filter.
queryDataSortFirst(jsonData, query) ==
  filterStep(sortStep(jsonData, query.sort), query.filter)

\* Lines 366-378: the filter, then the sort of the filtered array.
queryData(jsonData, query) ==
  sortStep(filterStep(jsonData, query.filter), query.sort)

\* applyFilter throws inside the handler (line 373).
queryThrows(jsonData, query) ==
  isArray(jsonData) /\ query.filter # NoFilter /\ filterThrows(jsonData.rows, query.filter)

\* The helpers the handler calls on the dataset.
queryRan(jsonData, query) ==
  (IF isArray(jsonData) /\ query.filter # NoFilter THEN {"applyFilter"} ELSE {})
    \cup (IF isArray(jsonData) /\ query.sort # NoSort /\ ~queryThrows(jsonData, query)
          THEN {"applySort"} ELSE {})

\* A handler that writes the dataset it answers back to the endpoint.
storeAfterGetWritesBack(st, id, jsonData) ==
  [i \in 1..Len(st) |-> IF st[i].id = id THEN [st[i] EXCEPT !.jsonData = jsonData] ELSE st[i]]

\* The handler writes nothing: jsonData is a local of the handler (line 366)
\* and filter and sort build new arrays.
storeAfterGet(st, id, jsonData) == st

GetInit ==
  /\ store \in InitialStores
  /\ reqs = <<>> /\ gets = <<>>
  /\ PipeIdle /\ QryIdle

\* A GET request arrives.
GetArrive ==
  /\ Len(gets) < MaxGet
  /\ \E id \in GetIds, query \in Queries : gets' = Append(gets, NewGet(id, query))
  /\ UNCHANGED <<reqs, store, pipeVars, qryVars>>

\* await storage.getEndpoint (line 360).
GetLookup(g) ==
  /\ gets[g].pc = "lookup"
  /\ LET id == gets[g].id
     IN gets' = [gets EXCEPT ![g] =
                   [@ EXCEPT !.pc = IF getEndpointThrows(id) THEN "threw"
                                    ELSE IF getEndpointFinds(store, id) THEN "found"
                                    ELSE "missing",
                             !.endpoint = IF getEndpointThrows(id) THEN NoEndpoint
                                          ELSE getEndpoint(store, id)]]
  /\ UNCHANGED <<reqs, store, pipeVars, qryVars>>

\* The answer of the handler on an endpoint it found (lines 366-380), or of
\* its catch (lines 381-383).
answerFound(endpoint, query) ==
  IF query.malformed THEN GetError(500, "Unexpected token")
  ELSE IF queryThrows(endpoint.jsonData, query)
  THEN GetError(500, "toLowerCase is not a function")
  ELSE GetOk(queryData(endpoint.jsonData, query))

\* The handler after the await (lines 362-383).
GetAnswer(g) ==
  /\ gets[g].pc \in {"threw", "found", "missing"}
  /\ LET q == gets[g]
         answer == IF q.pc = "threw" THEN GetError(500, "invalid input syntax for type uuid")
                   ELSE IF q.pc = "missing" THEN GetError(404, "Endpoint not found")
                   ELSE answerFound(q.endpoint, q.query)
         ran == IF q.pc = "found" /\ ~q.query.malformed
                THEN queryRan(q.endpoint.jsonData, q.query) ELSE {}
     IN /\ gets' = [gets EXCEPT ![g] = [@ EXCEPT !.pc = "done", !.ran = ran,
                                                 !.resp = <<answer>>]]
        /\ store' = IF q.pc = "found" /\ answer.status = 200
                    THEN storeAfterGet(store, q.id, answer.jsonData) ELSE store
  /\ UNCHANGED <<reqs, pipeVars, qryVars>>

GetNext ==
  \/ GetArrive
  \/ \E g \in 1..Len(gets) : GetLookup(g)
  \/ \E g \in 1..Len(gets) : GetAnswer(g)

GetSpec == GetInit /\ [][GetNext]_vars

\* A GET request that found its endpoint and read well-formed options.
Served(g) == gets[g].pc = "done" /\ gets[g].resp[1].status = 200

\* C22: a GET request on a stored dataset that is not an array, whatever its
\* well-formed filter and sort options, is answered 200 with the stored
\* dataset itself, and neither applyFilter nor applySort has run for it.
C22_NonArrayUntouched ==
  \A g \in 1..Len(gets) :
    (gets[g].pc = "done" /\ gets[g].endpoint # NoEndpoint /\ ~gets[g].query.malformed
       /\ gets[g].endpoint.jsonData.tag # "array") =>
      /\ gets[g].resp = <<GetOk(gets[g].endpoint.jsonData)>>
      /\ gets[g].ran = {}

\* A workbook of two sheets asked with a filter and a sort, answered as stored.
C22_Witness ==
  \E g \in 1..Len(gets) :
    /\ gets[g].pc = "done"
    /\ gets[g].endpoint.jsonData = StoredSheets
    /\ gets[g].query.filter # NoFilter /\ gets[g].query.sort # NoSort
    /\ gets[g].resp = <<GetOk(StoredSheets)>>

\* What a request answers when it is the only one: the status, error and
\* dataset of every run of the handler on its file alone.
AloneStarts(q) ==
  {handlerStart(NewRequest(q.hasFile, q.fileName, q.content), wb) :
     wb \in (IF q.hasFile /\ dispatch(q.fileName) = "xlsx"
             THEN xlsxOutcomes(q.content) ELSE {NoBook})}
AloneSettled(q) ==
  {IF s.pc = "awaitXml"
   THEN afterXml([NewRequest(q.hasFile, q.fileName, q.content) EXCEPT !.ran = s.ran])
   ELSE s : s \in AloneStarts(q)}
AloneDatasets(q) == {s.jsonData : s \in {t \in AloneSettled(q) : t.pc = "awaitDb"}}
AloneAnswers(q) ==
  {<<s.resp[1].status, s.resp[1].error, NoData>> : s \in {t \in AloneSettled(q) : t.pc = "done"}}
    \cup {<<200, "", d>> : d \in {e \in AloneDatasets(q) : TRUE \in insertOutcomes(e)}}
    \cup {<<500, "File processing error", NoData>> :
            d \in {e \in AloneDatasets(q) : FALSE \in insertOutcomes(e)}}

\* C23: under every interleaving of the steps of the upload requests, the
\* dataset a request holds when it waits for the insert, and the dataset or
\* the error it answers, are those the handler produces on that request's
\* file when it runs alone.
C23_RequestsDoNotInteract ==
  \A r \in 1..Len(reqs) :
    /\ reqs[r].pc \in {"awaitDb", "inserted", "dbFailed"} =>
         reqs[r].jsonData \in AloneDatasets(reqs[r])
    /\ Done(r) =>
         <<reqs[r].resp[1].status, reqs[r].resp[1].error, reqs[r].resp[1].jsonData>>
           \in AloneAnswers(reqs[r])

\* Two requests on different files, both answered with their own dataset,
\* the second one stored before the first.
C23_Witness ==
  /\ Len(reqs) = 2 /\ Done(1) /\ Done(2)
  /\ reqs[1].content # reqs[2].content
  /\ reqs[1].resp[1].status = 200 /\ reqs[2].resp[1].status = 200
  /\ reqs[1].resp[1].jsonData # reqs[2].resp[1].jsonData
  /\ Len(store) = 2 /\ store[1].by = 2

CleanChars == Range(LowerLetters) \cup Digits \cup {"_"}
KeysOf(data) == [r \in 1..Len(data) |-> [i \in 1..Len(data[r]) |-> data[r][i].key]]

\* C24: every key of every row returned by cleanData holds only characters
\* of [a-z0-9_], and cleaning the cleaned rows again changes no key.
C24_CleanKeys ==
  pstage \in {"clean", "typed", "done"} =>
    /\ \A r \in 1..Len(pclean) : \A i \in 1..Len(pclean[r]) :
         \A c \in 1..Len(pclean[r][i].key) : pclean[r][i].key[c] \in CleanChars
    /\ KeysOf(cleanData(pclean)) = KeysOf(pclean)

\* A key of an upper-case letter and a hyphen, cleaned.
C24_Witness ==
  /\ pstage = "clean" /\ Len(pdata) = 1
  /\ pdata[1][1].key = <<"B", "-">>
  /\ pclean[1][1].key = <<"b", "_">>

\* The value that the last entry of a row under a cleaned key holds.
LastUnder(row, key) ==
  row[CHOOSE i \in 1..Len(row) :
        /\ cleanKey(row[i].key) = key
        /\ \A j \in (i + 1)..Len(row) : cleanKey(row[j].key) # key].val
CarriedOver(data, cleaned) ==
  /\ Len(cleaned) = Len(data)
  /\ \A r \in 1..Len(data) :
       /\ KeySet(cleaned[r]) = {cleanKey(k) : k \in KeySet(data[r])}
       /\ \A k \in KeySet(cleaned[r]) :
            Get(cleaned[r], k) = IF LastUnder(data[r], k) = Str(<<>>) THEN Null
                                 ELSE LastUnder(data[r], k)

\* C25: a step of cleanData leaves its input rows as they were, and each
\* cleaned row holds under each cleaned key null where the input value is
\* the empty string and the input value itself in every other case.
C25_OnlyEmptyStringToNull ==
  [][(pstage = "raw" /\ pstage' = "clean") => (pdata' = pdata /\ CarriedOver(pdata, pclean'))]_vars

\* A column of the empty string, a blank and 0, cleaned to null, the blank
\* and 0.
C25_Witness ==
  /\ pstage = "clean"
  /\ Len(pdata) = 3
  /\ pdata[1][1].val = Str(<<>>) /\ pdata[2][1].val = Str(<<" ">>) /\ pdata[3][1].val = Num(0)
  /\ pclean[1][1].val = Null /\ pclean[2][1].val = Str(<<" ">>) /\ pclean[3][1].val = Num(0)

\* The text that toISOString returns: a date, T, a time of day, Z.
IsISOTimestamp(v) ==
  /\ v.k = "string" /\ Len(v.s) = 24
  /\ IsIsoDate(SubSeq(v.s, 1, 10)) /\ v.s[11] = "T" /\ v.s[24] = "Z"

\* C26: in the rows that convertDataTypes returns for the types of
\* detectDataTypes, a null of the cleaned rows is null, a value of a number
\* column is a number, of a date column an ISO 8601 timestamp, of a string
\* column a string, and no column holds a number and a string.
C26_ColumnsHomogeneous ==
  pstage = "done" =>
    /\ KeysOf(pout) = KeysOf(pclean)
    /\ \A r \in 1..Len(pout) : \A i \in 1..Len(pout[r]) :
         LET v == pout[r][i].val
             type == typeAt(ptypes, pout[r][i].key)
         IN IF pclean[r][i].val = Null THEN v = Null
            ELSE CASE type = "number" -> v.k = "number"
                   [] type = "date" -> IsISOTimestamp(v)
                   [] type = "string" -> v.k = "string"
                   [] OTHER -> FALSE
    /\ \A key \in AllKeys(pout) :
         ~ \E v, w \in ColumnValues(pout, key) : v.k = "number" /\ w.k = "string"

\* A column of a number and a text, returned as two strings, beside a date
\* column with a null.
C26_Witness ==
  /\ pstage = "done" /\ Len(pout) = 2 /\ Len(pout[1]) = 2
  /\ pclean[1][1].val = Num(7) /\ pclean[2][1].val = Str(TextX)
  /\ pout[1][1].val = Str(<<"7">>) /\ pout[2][1].val = Str(TextX)
  /\ typeAt(ptypes, PlainB) = "date"
  /\ IsISOTimestamp(pout[1][2].val) /\ pout[2][2].val = Null

\* C27: convertDataTypes on the types of detectDataTypes never throws: every
\* key of every row has a type, and in a date column every value that is
\* not null parses as a date.
C27_ConversionCompletes ==
  /\ pstage # "threw"
  /\ pstage \in {"typed", "done"} =>
       /\ \A r \in 1..Len(pclean) : KeySet(pclean[r]) \subseteq DOMAIN ptypes
       /\ \A key \in DOMAIN ptypes :
            ptypes[key] = "date" =>
              \A v \in ColumnValues(pclean, key) : v = Null \/ DateParses(v)
       /\ ~convertThrows(pclean, ptypes)

\* A column of a date and a text, typed string, beside a date column with a
\* null, converted.
C27_Witness ==
  /\ pstage = "done" /\ Len(pout) = 2 /\ Len(pout[1]) = 2
  /\ pclean[1][1].val = Str(TextDate) /\ pclean[2][1].val = Str(TextX)
  /\ typeAt(ptypes, PlainA) = "string" /\ typeAt(ptypes, PlainB) = "date"
  /\ pout[1][1].val = Str(TextDate)

\* The place of a row in an array of rows that are all different.
IndexIn(rows, row) == CHOOSE i \in 1..Len(rows) : rows[i] = row
IsSubsequence(part, rows) ==
  /\ \A p \in 1..Len(part) : \E i \in 1..Len(rows) : rows[i] = part[p]
  /\ \A p, q \in 1..Len(part) : p < q => IndexIn(rows, part[p]) < IndexIn(rows, part[q])
IsReordering(out, rows) ==
  /\ Len(out) = Len(rows)
  /\ \A i \in 1..Len(rows) : \E p \in 1..Len(out) : out[p] = rows[i]

\* A GET request answered 200 on a stored array.
ServedArray(g) == Served(g) /\ gets[g].endpoint.jsonData.tag = "array"

\* C28: a GET answered on a stored array returns, with a filter and a sort,
\* applySort of applyFilter of the stored rows; with a filter only, a
\* subsequence of the stored rows in their order; with a sort only, all the
\* stored rows reordered; with neither, the stored array.
C28_FilterThenSort ==
  \A g \in 1..Len(gets) :
    ServedArray(g) =>
      LET rows == gets[g].endpoint.jsonData.rows
          filter == gets[g].query.filter
          sort == gets[g].query.sort
          answer == gets[g].resp[1].jsonData
      IN /\ answer.tag = "array"
         /\ (filter # NoFilter /\ sort # NoSort) =>
              answer.rows = applySort(applyFilter(rows, filter), sort)
         /\ (filter # NoFilter /\ sort = NoSort) => IsSubsequence(answer.rows, rows)
         /\ (filter = NoFilter /\ sort # NoSort) => IsReordering(answer.rows, rows)
         /\ (filter = NoFilter /\ sort = NoSort) => answer.rows = rows

\* A stored array of three rows asked with a filter that keeps two of them
\* and a sort, beside a request without options answered the stored array.
C28_Witness ==
  /\ \E g \in 1..Len(gets) :
       /\ ServedArray(g)
       /\ gets[g].query.filter # NoFilter /\ gets[g].query.sort # NoSort
       /\ Len(gets[g].endpoint.jsonData.rows) = 3
       /\ Len(gets[g].resp[1].jsonData.rows) = 2
  /\ \E g \in 1..Len(gets) :
       /\ ServedArray(g)
       /\ gets[g].query.filter = NoFilter /\ gets[g].query.sort = NoSort
       /\ gets[g].resp[1].jsonData = DArray(StoredRows)

\* The field values of the rows of an array, in the order of the rows.
FieldColumn(data, field) == [i \in 1..Len(data) |-> Get(data[i], field)]
AllOfKind(column, kind) == \A i \in 1..Len(column) : column[i].k = kind
\* The order of two numbers, and of two strings in the collation.
NotAfter(v, w) ==
  IF v.k = "number" THEN v.n <= w.n ELSE localeCompare(v.s, w.s) <= 0
NonDecreasing(column) ==
  \A p, q \in 1..Len(column) : p < q => NotAfter(column[p], column[q])
NonIncreasing(column) ==
  \A p, q \in 1..Len(column) : p < q => NotAfter(column[q], column[p])

\* C29: where the sort field of every row holds a number, or of every row a
\* string, applySort returns the rows in non-decreasing order of the field
\* for the direction asc and in non-increasing order for every other
\* direction, desc or not.
C29_HomogeneousSorted ==
  (qstage = "sorted"
     /\ (AllOfKind(FieldColumn(qdata, qsort.field), "number")
           \/ AllOfKind(FieldColumn(qdata, qsort.field), "string"))) =>
    /\ IsReordering(qout, qdata)
    /\ IF qsort.direction = "asc"
       THEN NonDecreasing(FieldColumn(qout, qsort.field))
       ELSE /\ NonIncreasing(FieldColumn(qout, qsort.field))
            /\ qout = applySort(qdata, [qsort EXCEPT !.direction = "desc"])

\* Three rows of different strings under a direction that is neither asc nor
\* desc, returned in another order than stored.
C29_Witness ==
  /\ qstage = "sorted" /\ Len(qdata) = 3
  /\ qsort.direction \notin {"asc", "desc"}
  /\ AllOfKind(FieldColumn(qdata, qsort.field), "string")
  /\ \A i, j \in 1..3 : i # j => Get(qdata[i], qsort.field) # Get(qdata[j], qsort.field)
  /\ qout # qdata

\* A GET request without options, answered on an endpoint it found.
PlainServed(g) ==
  /\ Served(g)
  /\ gets[g].query.filter = NoFilter /\ gets[g].query.sort = NoSort

\* The dataset of the endpoint of an id, as the upload stored it.
StoredUnder(id) == store[CHOOSE i \in 1..Len(store) : store[i].id = id].jsonData

\* C30: no step of a GET request, answered or failed, changes the store, and
\* every GET request without options that finds its endpoint is answered
\* the dataset stored under its id, rows in their stored order.
C30_QueriesLeaveStore ==
  /\ [][store' = store]_vars
  /\ [](\A g \in 1..Len(gets) :
          PlainServed(g) => gets[g].resp = <<GetOk(StoredUnder(gets[g].id))>>)

\* The stored array asked once with a filter and a sort, answered two of its
\* rows, and once without options, answered the three rows as stored.
C30_Witness ==
  /\ store \in InitialStores
  /\ \E g, h \in 1..Len(gets) :
       /\ gets[g].id = gets[h].id
       /\ ServedArray(g) /\ gets[g].query.filter # NoFilter /\ gets[g].query.sort # NoSort
       /\ Len(gets[g].resp[1].jsonData.rows) = 2
       /\ PlainServed(h) /\ gets[h].resp = <<GetOk(DArray(StoredRows))>>

====
